---------------------------- MODULE Spec2Model ----------------------------
(***************************************************************************)
(* QuakeTrakr: the dashboard component of src/components/earthquake-card.tsx *)
(* (lines 78-337) as a state machine.                                      *)
(*                                                                         *)
(* State: the FilterState held by useState, the useSWR cache (one entry    *)
(* per feed URL), the pending error-retry timers, and the two useMemo      *)
(* cells (filteredEarthquakes, stats) with the dependency list the first   *)
(* one was last computed for.  Every handler is one action and ends with   *)
(* the re-render React performs after a state change.                      *)
(*                                                                         *)
(* Magnitudes are integers in tenths (5.0 is 50), the slider step (0.1)    *)
(* being the unit.                                                         *)
(***************************************************************************)
EXTENDS Integers, Sequences, FiniteSets, TLC

\* ---------------------------------------------------------------- bounds
\* Number of feed requests dispatched in one behaviour.
MaxFetches == 3
\* Length of the feeds enumerated for the derivation-only specification.
MaxLen == 2

\* ------------------------------------------------------------- constants
Timeframes == {"hour", "day", "week", "month"}

timeframeConfig ==
  [ hour  |-> [label |-> "Past Hour",  endpoint |-> "all_hour"],
    day   |-> [label |-> "Past Day",   endpoint |-> "all_day"],
    week  |-> [label |-> "Past Week",  endpoint |-> "all_week"],
    month |-> [label |-> "Past Month", endpoint |-> "all_month"] ]

\* The useSWR key: the feed URL, which differs per timeframe by its endpoint.
Key(tf) == timeframeConfig[tf].endpoint

Keys == {Key(tf) : tf \in Timeframes}

\* properties.mag of a feed event that is null, and one that is absent.
Null == -1000
Undefined == -1001

\* Slider range, in tenths.
SliderMin == 0
SliderMax == 100

\* Positions the sliders are moved to (samples of SliderMin..SliderMax): two
\* for the dashboard as a whole, three where only the derivations run.
SliderStops == {SliderMin, 50}
SliderStopsDerive == {SliderMin, 50, SliderMax}

\* Magnitudes a feed event carries: absent ones, a negative one, the
\* slider's ends and both sides of the significance threshold.
MagValues == {Null, Undefined, -5, 0, 48, 50, 62, 100}

\* ------------------------------------------------------- pure derivations
\* JavaScript relational comparison of properties.mag with a number:
\* null converts to 0, undefined to NaN (every comparison false).
ToNumber(mag) == IF mag = Null THEN 0 ELSE mag
GreaterEq(mag, x) == mag # Undefined /\ ToNumber(mag) >= x
LessEq(mag, x) == mag # Undefined /\ ToNumber(mag) <= x

\* useSWR's data before any response: undefined.
NoData == [defined |-> FALSE, url |-> "", features |-> << >>]

\* An EarthquakeResponse: metadata.url names the feed it came from.
Response(key, features) == [defined |-> TRUE, url |-> key, features |-> features]

\* features with ids 1..n and the given magnitudes.
MkFeatures(mags) == [i \in 1..Len(mags) |-> [id |-> i, mag |-> mags[i]]]

\* Faulty variant: the null/undefined test dropped, so that a null magnitude
\* compares as 0.
InRangeNoNullCheck(eq, minMagnitude, maxMagnitude) ==
  GreaterEq(eq.mag, minMagnitude) /\ LessEq(eq.mag, maxMagnitude)

InRange(eq, minMagnitude, maxMagnitude) ==
  LET mag == eq.mag IN
    /\ mag # Null
    /\ mag # Undefined
    /\ GreaterEq(mag, minMagnitude)
    /\ LessEq(mag, maxMagnitude)

Filter(data, minMagnitude, maxMagnitude) ==
  IF ~data.defined THEN << >>
  ELSE SelectSeq(data.features, LAMBDA eq : InRange(eq, minMagnitude, maxMagnitude))

RECURSIVE Sum(_)
Sum(s) == IF s = << >> THEN 0 ELSE Head(s) + Sum(Tail(s))

\* Math.max(...magnitudes) of a non-empty list.
MathMax(s) == CHOOSE m \in {s[i] : i \in 1..Len(s)} : \A i \in 1..Len(s) : s[i] <= m

Magnitudes(subset) ==
  LET mags == [i \in 1..Len(subset) |-> subset[i].mag]
  IN SelectSeq(mags, LAMBDA mag : mag # Null /\ mag # Undefined)

\* Faulty variant: strictly above 5.0.
IsSignificantStrict(eq) == eq.mag # Null /\ GreaterEq(eq.mag, 51)

IsSignificant(eq) == eq.mag # Null /\ GreaterEq(eq.mag, 50)

\* avgMagnitude is the quotient num / den, kept as a fraction.
Zero == [num |-> 0, den |-> 1]

\* Faulty variant: no early return for an empty subset, so the mean is 0 / 0
\* and the maximum is taken over nothing.
StatsNoEmptyCheck(subset) ==
  LET magnitudes == Magnitudes(subset) IN
    [total |-> Len(subset),
     avgMagnitude |-> [num |-> Sum(magnitudes), den |-> Len(magnitudes)],
     maxMagnitude |-> IF Len(magnitudes) = 0 THEN Undefined ELSE MathMax(magnitudes),
     significant |-> Len(SelectSeq(subset, IsSignificant))]

Stats(subset) ==
  IF Len(subset) = 0
    THEN [total |-> 0, avgMagnitude |-> Zero, maxMagnitude |-> 0, significant |-> 0]
  ELSE LET magnitudes == Magnitudes(subset) IN
    IF Len(magnitudes) = 0
      THEN [total |-> Len(subset), avgMagnitude |-> Zero, maxMagnitude |-> 0,
            significant |-> 0]
    ELSE [total |-> Len(subset),
          avgMagnitude |-> [num |-> Sum(magnitudes), den |-> Len(magnitudes)],
          maxMagnitude |-> MathMax(magnitudes),
          significant |-> Len(SelectSeq(subset, IsSignificant))]

\* ------------------------------------------------------------------ state
VARIABLES
  filters,              \* useState<FilterState>
  cache,                \* useSWR cache: key -> [data, error, isValidating]
  retryPending,         \* keys with an error-retry timer armed
  memoDeps,             \* dependency list filteredEarthquakes was computed for
  filteredEarthquakes,  \* useMemo cell
  stats,                \* useMemo cell
  fetches,              \* requests dispatched so far
  lastEvent             \* the handler that ran last, and the key it was about

vars == <<filters, cache, retryPending, memoDeps, filteredEarthquakes, stats,
          fetches, lastEvent>>

\* What the hook returns for the rendered key.
Entry(f, c) == c[Key(f.timeframe)]
data == Entry(filters, cache).data
error == Entry(filters, cache).error
isValidating == Entry(filters, cache).isValidating
isLoading == isValidating /\ ~data.defined

\* The two useMemo hooks of one render.  filteredEarthquakes is recomputed
\* when one of [data, minMagnitude, maxMagnitude] changed; stats when
\* filteredEarthquakes was recomputed.
\* Faulty variant: maxMagnitude missing from the dependency list.
DepsWithoutMax(f, c) == <<Entry(f, c).data, f.minMagnitude>>

Deps(f, c) == <<Entry(f, c).data, f.minMagnitude, f.maxMagnitude>>

Render(f, c) ==
  IF Deps(f, c) = memoDeps
    THEN UNCHANGED <<memoDeps, filteredEarthquakes, stats>>
  ELSE LET subset == Filter(Entry(f, c).data, f.minMagnitude, f.maxMagnitude) IN
    /\ memoDeps' = Deps(f, c)
    /\ filteredEarthquakes' = subset
    /\ stats' = Stats(subset)

\* The branch the render takes (isLoading ? ... : error ? ... : ...).
Phase == IF isLoading THEN "Loading" ELSE IF error THEN "Error" ELSE "Ready"

\* The statistics block of the render.
StatsPanel == IF isLoading THEN "skeleton" ELSE IF error THEN "error" ELSE "stats"

\* Faulty variant: the list block branching on error as the statistics do.
ListPanelErrorFirst ==
  IF isLoading THEN "skeleton"
  ELSE IF error THEN "error"
  ELSE IF Len(filteredEarthquakes) = 0 THEN "empty" ELSE "list"

\* The earthquake list block of the render.
ListPanel ==
  IF isLoading THEN "skeleton"
  ELSE IF Len(filteredEarthquakes) = 0 THEN "empty" ELSE "list"

\* History: the handler that ran last and its key; for the end of a request
\* also the phase it started from.
Event(kind, key) == [kind |-> kind, key |-> key]

\* A request for the key goes out: isValidating is set, data and error stay.
Dispatch(c, key) == [c EXCEPT ![key].isValidating = TRUE]

EmptyEntry == [data |-> NoData, error |-> FALSE, isValidating |-> FALSE]

Init ==
  /\ filters = [timeframe |-> "day", minMagnitude |-> SliderMin,
                maxMagnitude |-> SliderMax]
  /\ cache = Dispatch([k \in Keys |-> EmptyEntry], Key("day"))
  /\ retryPending = {}
  /\ memoDeps = Deps(filters, cache)
  /\ filteredEarthquakes = << >>
  /\ stats = Stats(<< >>)
  /\ fetches = 1
  /\ lastEvent = Event("mount", Key("day"))

\* ---------------------------------------------------------------- actions
\* onClick of a timeframe button.  A changed key makes useSWR revalidate it.
SelectTimeframe(tf) ==
  LET f == [filters EXCEPT !.timeframe = tf]
      key == Key(tf)
      starts == tf # filters.timeframe /\ ~cache[key].isValidating
      c == IF starts THEN Dispatch(cache, key) ELSE cache
  IN /\ starts => fetches < MaxFetches
     /\ filters' = f
     /\ cache' = c
     /\ fetches' = IF starts THEN fetches + 1 ELSE fetches
     /\ lastEvent' = Event("timeframe", key)
     /\ UNCHANGED retryPending
     /\ Render(f, c)

\* onValueChange of the minimum slider.
SetMinMagnitude(value) ==
  LET f == [filters EXCEPT !.minMagnitude = value] IN
    /\ filters' = f
    /\ lastEvent' = Event("min", Key(filters.timeframe))
    /\ UNCHANGED <<cache, retryPending, fetches>>
    /\ Render(f, cache)

\* onValueChange of the maximum slider.
SetMaxMagnitude(value) ==
  LET f == [filters EXCEPT !.maxMagnitude = value] IN
    /\ filters' = f
    /\ lastEvent' = Event("max", Key(filters.timeframe))
    /\ UNCHANGED <<cache, retryPending, fetches>>
    /\ Render(f, cache)

\* Faulty variant: the response stored under the key rendered on arrival.
FetchSuccessToRenderedKey(key, features) ==
  LET c == [cache EXCEPT ![key].isValidating = FALSE,
                         ![Key(filters.timeframe)].data = Response(key, features),
                         ![Key(filters.timeframe)].error = FALSE]
  IN /\ cache[key].isValidating
     /\ cache' = c
     /\ lastEvent' = [kind |-> "success", key |-> key, from |-> Phase,
                       resp |-> Response(key, features)]
     /\ UNCHANGED <<filters, retryPending, fetches>>
     /\ Render(filters, c)

\* Faulty variant: a success that leaves the error of the key in place.
FetchSuccessKeepsError(key, features) ==
  LET c == [cache EXCEPT ![key].data = Response(key, features),
                         ![key].isValidating = FALSE]
  IN /\ cache[key].isValidating
     /\ cache' = c
     /\ lastEvent' = [kind |-> "success", key |-> key, from |-> Phase,
                       resp |-> Response(key, features)]
     /\ UNCHANGED <<filters, retryPending, fetches>>
     /\ Render(filters, c)

\* The fetcher's promise resolves: fetch(url).then(res => res.json()) yields
\* a parsed EarthquakeResponse.  It is written to the cache entry of the key
\* the request was made for, whichever key is rendered by then.
FetchSuccess(key, features) ==
  LET c == [cache EXCEPT ![key] = [data |-> Response(key, features),
                                   error |-> FALSE,
                                   isValidating |-> FALSE]]
  IN /\ cache[key].isValidating
     /\ cache' = c
     /\ lastEvent' = [kind |-> "success", key |-> key, from |-> Phase,
                       resp |-> Response(key, features)]
     /\ UNCHANGED <<filters, retryPending, fetches>>
     /\ Render(filters, c)

\* Faulty variant: a failure that discards the data of the key.
FetchFailureDropsData(key, active) ==
  LET c == [cache EXCEPT ![key] = [data |-> NoData, error |-> TRUE,
                                   isValidating |-> FALSE]]
  IN /\ cache[key].isValidating
     /\ cache' = c
     /\ retryPending' = IF key = Key(filters.timeframe) /\ active
                          THEN retryPending \cup {key} ELSE retryPending
     /\ lastEvent' = [kind |-> "failure", key |-> key, from |-> Phase]
     /\ UNCHANGED <<filters, fetches>>
     /\ Render(filters, c)

\* Faulty variant: a failure that sends the request again at once.
FetchFailureRetriesAtOnce(key, active) ==
  LET c == [cache EXCEPT ![key].error = TRUE]
  IN /\ cache[key].isValidating
     /\ fetches < MaxFetches
     /\ cache' = c
     /\ fetches' = fetches + 1
     /\ lastEvent' = [kind |-> "failure", key |-> key, from |-> Phase]
     /\ UNCHANGED <<filters, retryPending>>
     /\ Render(filters, c)

\* The fetcher's promise rejects (network failure, body that is not JSON).
\* useSWR records the error for the key and keeps its data; with the default
\* shouldRetryOnError it arms a retry timer when the key is still rendered
\* and the page is active (visible and online).
FetchFailure(key, active) ==
  LET c == [cache EXCEPT ![key].error = TRUE, ![key].isValidating = FALSE]
  IN /\ cache[key].isValidating
     /\ cache' = c
     /\ retryPending' = IF key = Key(filters.timeframe) /\ active
                          THEN retryPending \cup {key} ELSE retryPending
     /\ lastEvent' = [kind |-> "failure", key |-> key, from |-> Phase]
     /\ UNCHANGED <<filters, fetches>>
     /\ Render(filters, c)

\* A revalidation of the rendered key asked for by `kind`.
Revalidate(kind) ==
  LET key == Key(filters.timeframe)
      c == Dispatch(cache, key)
  IN /\ ~cache[key].isValidating
     /\ fetches < MaxFetches
     /\ cache' = c
     /\ fetches' = fetches + 1
     /\ lastEvent' = Event(kind, key)
     /\ UNCHANGED <<filters, retryPending>>
     /\ Render(filters, c)

\* refreshInterval: 60000.  The interval timer revalidates the rendered key
\* unless its cache entry holds an error.
Poll ==
  /\ ~error
  /\ Revalidate("poll")

\* The error-retry timer of a key fires: it revalidates the key when the
\* hook still renders it, and does nothing otherwise.
ErrorRetry(key) ==
  LET starts == key = Key(filters.timeframe) /\ ~cache[key].isValidating
      c == IF starts THEN Dispatch(cache, key) ELSE cache
  IN /\ key \in retryPending
     /\ starts => fetches < MaxFetches
     /\ retryPending' = retryPending \ {key}
     /\ cache' = c
     /\ fetches' = IF starts THEN fetches + 1 ELSE fetches
     /\ lastEvent' = Event("retry", key)
     /\ UNCHANGED filters
     /\ Render(filters, c)

\* Default revalidateOnFocus: the window regains focus.
Focus == Revalidate("focus")

\* Default revalidateOnReconnect: the browser comes back online.
Reconnect == Revalidate("reconnect")

\* Feeds the server answers with: an empty one, and four events of which one
\* has a null magnitude.
SampleFeeds ==
  { MkFeatures(<< >>),
    MkFeatures(<<62, Null, 48, 50>>) }

Next ==
  \/ \E tf \in Timeframes : SelectTimeframe(tf)
  \/ \E value \in SliderStops : SetMinMagnitude(value)
  \/ \E value \in SliderStops : SetMaxMagnitude(value)
  \/ \E key \in Keys, features \in SampleFeeds : FetchSuccess(key, features)
  \/ \E key \in Keys, active \in BOOLEAN : FetchFailure(key, active)
  \/ Poll
  \/ \E key \in Keys : ErrorRetry(key)
  \/ Focus
  \/ Reconnect

Spec == Init /\ [][Next]_vars

\* ------------------------------------------- derivation-only specification
\* Every feed of at most MaxLen events over MagValues.
RECURSIVE SeqsUpTo(_)
SeqsUpTo(n) ==
  IF n = 0 THEN {<< >>}
  ELSE LET shorter == SeqsUpTo(n - 1)
       IN shorter \cup {Append(s, m) : s \in {t \in shorter : Len(t) = n - 1},
                                      m \in MagValues}

\* The state after a first successful fetch of an arbitrary feed, rendered
\* under an arbitrary position of the two sliders.
InitDerive ==
  \E mags \in SeqsUpTo(MaxLen), lo \in SliderStopsDerive, hi \in SliderStopsDerive :
    LET response == Response(Key("day"), MkFeatures(mags)) IN
      /\ filters = [timeframe |-> "day", minMagnitude |-> lo, maxMagnitude |-> hi]
      /\ cache = [k \in Keys |-> IF k = Key("day")
                                   THEN [EmptyEntry EXCEPT !.data = response]
                                   ELSE EmptyEntry]
      /\ retryPending = {}
      /\ memoDeps = Deps(filters, cache)
      /\ filteredEarthquakes = Filter(response, lo, hi)
      /\ stats = Stats(filteredEarthquakes)
      /\ fetches = 1
      /\ lastEvent = [kind |-> "success", key |-> Key("day"), from |-> "Loading",
                      resp |-> response]

NextDerive ==
  \/ \E value \in SliderStopsDerive : SetMinMagnitude(value)
  \/ \E value \in SliderStopsDerive : SetMaxMagnitude(value)

SpecDerive == InitDerive /\ [][NextDerive]_vars

\* ------------------------------------------------------------- properties
Present(mag) == mag # Null /\ mag # Undefined

Rendered == Key(filters.timeframe)

Ids(events) == {events[i].id : i \in 1..Len(events)}

\* C1: an event of the snapshot is in the filtered subset if and only if its
\* magnitude is present and minMagnitude <= magnitude <= maxMagnitude; an
\* event without magnitude is excluded for every range.
C1_FilterRule ==
  /\ \A i \in 1..Len(data.features) :
       LET eq == data.features[i] IN
         (\E j \in 1..Len(filteredEarthquakes) : filteredEarthquakes[j] = eq)
           <=> /\ Present(eq.mag)
               /\ filters.minMagnitude <= eq.mag
               /\ eq.mag <= filters.maxMagnitude
  /\ Ids(filteredEarthquakes) \subseteq Ids(data.features)

\* The minimum slider is moved to 0: a null magnitude is left out of a range
\* that contains 0 while another event is let through.
C1_Witness ==
  /\ lastEvent.kind = "min"
  /\ filters.minMagnitude = 0
  /\ \E i \in 1..Len(data.features) : data.features[i].mag = Null
  /\ Len(filteredEarthquakes) = 1

C3_SnapshotOfSelectedTimeframe ==
  /\ data.defined => data.url = Rendered
  /\ memoDeps[1].defined => memoDeps[1].url = Rendered
  /\ (lastEvent.kind = "success" /\ lastEvent.key # Rendered)
       => /\ data # lastEvent.resp
          /\ memoDeps[1] # lastEvent.resp

\* The "day" response arrives, with events, after the switch to "week".
C3_Witness ==
  /\ filters.timeframe = "week"
  /\ lastEvent.kind = "success"
  /\ lastEvent.key = Key("day")
  /\ Len(lastEvent.resp.features) > 0
  /\ cache[Key("day")].data = lastEvent.resp
  /\ ~data.defined

\* C4: FilterState satisfies 0 <= minMagnitude <= maxMagnitude <= 10.
C4_RangeInvariant ==
  /\ SliderMin <= filters.minMagnitude
  /\ filters.minMagnitude <= filters.maxMagnitude
  /\ filters.maxMagnitude <= SliderMax

\* A request goes out in this step for a key whose last request failed.
StartsAfterFailure == fetches' > fetches /\ cache[lastEvent'.key].error

ErrorOverSnapshot == error /\ data.defined

\* C6 (as stated): while an error is flagged and a snapshot exists, the
\* filtered list and the statistics are both shown, with the error indicator.
C6_ListAndStatsShown ==
  ErrorOverSnapshot
    => /\ ListPanel \in {"list", "empty"}
       /\ StatsPanel = "stats"

\* C6 (amended): while an error is flagged and a snapshot exists, the
\* filtered list of that snapshot is shown together with the error message,
\* which takes the place of the statistics.
C6_ListShownStatsReplaced ==
  ErrorOverSnapshot
    => /\ ListPanel = IF Len(filteredEarthquakes) = 0 THEN "empty" ELSE "list"
       /\ filteredEarthquakes = Filter(data, filters.minMagnitude, filters.maxMagnitude)
       /\ StatsPanel = "error"

\* The list of the last good snapshot is on screen under the error message.
C6_Witness ==
  /\ ErrorOverSnapshot
  /\ ListPanel = "list"
  /\ StatsPanel = "error"

\* C7: in every state the filtered subset is the filter of the current data
\* under the current range, and the statistics are the aggregate of it.
C7_DerivedFromCurrent ==
  /\ filteredEarthquakes = Filter(data, filters.minMagnitude, filters.maxMagnitude)
  /\ stats = Stats(filteredEarthquakes)

\* A response arrives while the range is narrowed: part of it is listed.
C7_Witness ==
  /\ lastEvent.kind = "success"
  /\ lastEvent.key = Rendered
  /\ filters.minMagnitude = 50
  /\ filters.maxMagnitude = 50
  /\ Len(filteredEarthquakes) = 1
  /\ Len(data.features) > 1

C9_SignificantCount ==
  /\ stats.total = Len(filteredEarthquakes)
  /\ stats.significant =
       Cardinality({i \in 1..Len(filteredEarthquakes) :
                      /\ Present(filteredEarthquakes[i].mag)
                      /\ filteredEarthquakes[i].mag >= 50})
  /\ stats.significant <= stats.total

\* After a move of the maximum slider, a subset with an event of exactly 5.0
\* and one that is not significant.
C9_Witness ==
  /\ lastEvent.kind = "max"
  /\ stats.total = 2
  /\ stats.significant = 1
  /\ \E i \in 1..2 : filteredEarthquakes[i].mag = 50

\* C10: an empty filtered subset has all four statistics zero.
C10_EmptySubsetZeroStats ==
  Len(filteredEarthquakes) = 0
    => /\ stats.total = 0
       /\ stats.avgMagnitude = Zero
       /\ stats.maxMagnitude = 0
       /\ stats.significant = 0

\* A range that matches no event of a non-empty snapshot.
C10_Witness ==
  /\ data.defined
  /\ Len(data.features) > 0
  /\ Len(filteredEarthquakes) = 0
  /\ stats.total = 0

=============================================================================
